---- MODULE Spec2Model ----
(***************************************************************************)
(* F9Transcribe: the job list of HomePage (src/src/app/page.tsx), the      *)
(* /api/transcribe route it posts to, and the audio utilities of           *)
(* src/src/utils/audioUtils.ts.                                            *)
(*                                                                         *)
(* Array indices are 1-based here: index k of the model is index k-1 of    *)
(* the TypeScript arrays.                                                  *)
(***************************************************************************)
EXTENDS Integers, Sequences, FiniteSets, TLC

(* ---------------------------------------------------------------------- *)
(* Bounds of the model                                                     *)
(* ---------------------------------------------------------------------- *)

\* File objects the user selects over the whole session
MaxFiles == 3

\* files picked in one use of the file selector
MaxSelect == 2

\* sample frames of a decoded file
MaxSamples == 15

\* fragments handed to one call of mergeTranscriptions
MaxFragments == 3

\* largest fragment index (indices are 0..MaxIndex)
MaxIndex == 2

\* channels of a buffer handed to audioBufferToBlob
MaxChannels == 2

\* sample frames of a buffer handed to audioBufferToBlob
MaxFrames == 2

(* ---------------------------------------------------------------------- *)
(* Program constants                                                       *)
(* ---------------------------------------------------------------------- *)

\* page.tsx:22  file.size <= 100 * 1024 * 1024
UploadLimit == 104857600

\* page.tsx:295  MAX_FILE_SIZE = 25 * 1024 * 1024
MAX_FILE_SIZE == 26214400

\* page.tsx:477/480  maxDurationMinutes = 2.67, in ms: 2.67 * 60 * 1000
SplitThresholdMs == 160200

\* page.tsx:484  10MB fallback
FallbackSplitSize == 10485760

(* ---------------------------------------------------------------------- *)
(* Values                                                                  *)
(* ---------------------------------------------------------------------- *)

\* The File objects a user can pick: name, byte size and playback duration.
\* The sizes are the largest the route accepts, the largest the page accepts
\* and one byte more; the durations are above and exactly at the split
\* threshold.  Picking the same kind twice gives two File objects of one name.
FileKinds ==
  { [name |-> "a.mp3", size |-> 26214400,  durationMs |-> 900000],
    [name |-> "b.mp3", size |-> 104857600, durationMs |-> 160200],
    [name |-> "c.mp3", size |-> 104857601, durationMs |-> 90000] }

\* fileStatus.file of an entry written past the end of the array: undefined
NoFile == [id |-> 0, name |-> "", size |-> 0, durationMs |-> 0]

MkFile(id, kind) ==
  [id |-> id, name |-> kind.name, size |-> kind.size, durationMs |-> kind.durationMs]

\* transcription?: string, undefined when absent
NoTranscript == [kind |-> "undefined", of |-> 0]

\* what the speech-to-text service returns for the File with this id:
\* data.text when the body has a text field, the whole body otherwise
TextOf(id) == [kind |-> "text", of |-> id]
BodyOf(id) == [kind |-> "body", of |-> id]

\* an array slot nothing was ever written to (a hole, read as undefined)
Undefined == [file |-> NoFile, status |-> "undefined", transcription |-> NoTranscript]

NoAlert == "none"

VARIABLES
  apiKey,          \* useState('')  page.tsx:13
  files,           \* useState<FileStatus[]>([])  page.tsx:14
  isTranscribing,  \* useState(false)  page.tsx:15
  pc,              \* handleTranscribe: "idle" or suspended at "await"
  i,               \* loop variable of handleTranscribe
  snapFiles,       \* the files array the running handleTranscribe closed over
  snapKey,         \* the apiKey the running handleTranscribe closed over
  inflight,        \* requests to /api/transcribe that have not been consumed
  alertMsg,        \* the window.alert raised by the step just taken, if any
  nextId,          \* identity of the next File object
  subLog,          \* history: indices submitted by the current (or last) run
  touched,         \* history: a file was added or removed since the run began
  splitPc,         \* splitAudioFile: where the call is
  audioBuffer,     \* the decoded AudioBuffer: sampleRate, length (sample frames)
  chunkDurationMs, \* parameter of splitAudioFile
  currentTime,     \* local of splitAudioFile
  chunkIndex,      \* local of splitAudioFile
  chunks,          \* local of splitAudioFile, the value it resolves with
  splitError,      \* what the promise of splitAudioFile was rejected with
  mergePc,         \* mergeTranscriptions: "called" or "returned"
  results,         \* argument of mergeTranscriptions (sorted in place)
  arrived,         \* history: the argument as it was when the call was made
  merged,          \* the string mergeTranscriptions returned
  probePc,         \* shouldSplitFileByDuration: where the call is
  probeFile,       \* its argument file: byte size, and duration once loaded
  maxDurationMs,   \* its threshold, maxDurationMinutes * 60 * 1000
  audioEvents,     \* events the Audio element of getAudioDuration has fired
  objectUrls,      \* object URLs created and not revoked
  durationPromise, \* the promise getAudioDuration returned
  shouldSplit,     \* what shouldSplitFileByDuration returned
  probeLog,        \* history: calls made by getAudioDuration, in program order
  encPc,           \* audioBufferToBlob: where the call is
  encBuffer,       \* its argument: numberOfChannels, length, sampleRate, channelData
  view,            \* the bytes of the ArrayBuffer behind the DataView
  offset,          \* local of audioBufferToBlob
  frame,           \* loop variable i of audioBufferToBlob
  channel,         \* loop variable channel of audioBufferToBlob
  blob             \* the bytes of the Blob it returned

pageVars == << apiKey, files, isTranscribing, pc, i, snapFiles, snapKey, inflight,
               alertMsg, nextId, subLog, touched >>

splitVars == << splitPc, audioBuffer, chunkDurationMs, currentTime, chunkIndex,
                chunks, splitError >>

mergeVars == << mergePc, results, arrived, merged >>

probeVars == << probePc, probeFile, maxDurationMs, audioEvents, objectUrls,
                durationPromise, shouldSplit, probeLog >>

encodeVars == << encPc, encBuffer, view, offset, frame, channel, blob >>

utilVars == << mergeVars, probeVars, encodeVars >>

vars == << apiKey, files, isTranscribing, pc, i, snapFiles, snapKey, inflight,
           alertMsg, nextId, subLog, touched,
           splitPc, audioBuffer, chunkDurationMs, currentTime, chunkIndex,
           chunks, splitError,
           mergePc, results, arrived, merged,
           probePc, probeFile, maxDurationMs, audioEvents, objectUrls,
           durationPromise, shouldSplit, probeLog,
           encPc, encBuffer, view, offset, frame, channel, blob >>

\* no call of mergeTranscriptions is being followed
MergeIdle ==
  /\ mergePc = "unused"
  /\ results = << >>
  /\ arrived = << >>
  /\ merged = << >>

\* a promise: "pending", "resolved" with a value, or "rejected"
Promise(state, value) == [state |-> state, value |-> value]

\* audio.duration * 1000: a finite number of milliseconds, or Infinity for
\* media whose length the browser cannot tell
Finite(ms) == [kind |-> "finite", ms |-> ms]
Infinity == [kind |-> "Infinity", ms |-> 0]

\* no call of shouldSplitFileByDuration is being followed
ProbeIdle ==
  /\ probePc = "unused"
  /\ probeFile = [size |-> 0, duration |-> Finite(0)]
  /\ maxDurationMs = 0
  /\ audioEvents = {}
  /\ objectUrls = {}
  /\ durationPromise = Promise("pending", Finite(0))
  /\ shouldSplit = FALSE
  /\ probeLog = << >>

\* no call of audioBufferToBlob is being followed
EncodeIdle ==
  /\ encPc = "unused"
  /\ encBuffer = [numberOfChannels |-> 0, length |-> 0, sampleRate |-> 0,
                  channelData |-> << >>]
  /\ view = << >>
  /\ offset = 0
  /\ frame = 0
  /\ channel = 0
  /\ blob = << >>

UtilIdle == MergeIdle /\ ProbeIdle /\ EncodeIdle

(* ---------------------------------------------------------------------- *)
(* HomePage: pure helpers                                                  *)
(* ---------------------------------------------------------------------- *)

Max(a, b) == IF a >= b THEN a ELSE b

\* newFiles[index] = { ...newFiles[index], status, transcription } on a copy
\* of prevFiles.  An index past the end makes the array longer; the slots in
\* between are never written.  Spreading an absent entry yields no file.
updateFileStatusKeepText(prevFiles, index, status, transcription) ==
  [k \in 1..Max(Len(prevFiles), index) |->
     IF k = index
       THEN [file |-> IF k <= Len(prevFiles) THEN prevFiles[k].file ELSE NoFile,
             status |-> status,
             transcription |-> IF k <= Len(prevFiles)
                                 THEN prevFiles[k].transcription
                                 ELSE NoTranscript]
     ELSE IF k <= Len(prevFiles) THEN prevFiles[k]
     ELSE Undefined]

updateFileStatus(prevFiles, index, status, transcription) ==
  [k \in 1..Max(Len(prevFiles), index) |->
     IF k = index
       THEN [file |-> IF k <= Len(prevFiles) THEN prevFiles[k].file ELSE NoFile,
             status |-> status, transcription |-> transcription]
     ELSE IF k <= Len(prevFiles) THEN prevFiles[k]
     ELSE Undefined]

\* files.map(fileStatus => ... fileStatus.file.name ...) in the JSX: reading
\* .name of an entry without a file throws, and the page unmounts.
Mounted == \A k \in 1..Len(files) : files[k].file # NoFile

\* disabled={isTranscribing || !apiKey || files.length === 0}
ButtonDisabledNoBusyCheck == apiKey = "" \/ Len(files) = 0

ButtonDisabled == isTranscribing \/ apiKey = "" \/ Len(files) = 0

\* if (files[i].status === 'completed') continue;
Skips(entry) == entry.status = "completed"

\* the first index >= k of the closed-over array the loop does not skip,
\* Len + 1 when the loop runs off the end
RECURSIVE NextIndex(_, _)
NextIndex(snap, k) ==
  IF k > Len(snap) THEN Len(snap) + 1
  ELSE IF Skips(snap[k]) THEN NextIndex(snap, k + 1)
  ELSE k

\* handleFileChange: filter by size, map to pending entries
RECURSIVE AcceptedFiles(_, _)
AcceptedFiles(selected, id) ==
  IF selected = << >> THEN << >>
  ELSE IF Head(selected).size <= UploadLimit
    THEN << [file |-> MkFile(id, Head(selected)), status |-> "pending",
             transcription |-> NoTranscript] >>
         \o AcceptedFiles(Tail(selected), id + 1)
    ELSE AcceptedFiles(Tail(selected), id)

Selections ==
  UNION { [1..n -> FileKinds] : n \in 1..MaxSelect }

\* a removal that takes out only the first entry of that name
RemoveFirstByName(fs, fileName) ==
  LET named == { k \in 1..Len(fs) : fs[k].file.name = fileName } IN
  IF named = {} THEN fs
  ELSE LET first == CHOOSE k \in named : \A j \in named : k <= j
       IN  SubSeq(fs, 1, first - 1) \o SubSeq(fs, first + 1, Len(fs))

\* removeFile: files.filter(f => f.file.name !== fileName)
RemoveByName(fs, fileName) ==
  LET keep(f) == f.file.name # fileName IN SelectSeq(fs, keep)

(* ---------------------------------------------------------------------- *)
(* /api/transcribe: POST (page.tsx:299-381)                                *)
(* ---------------------------------------------------------------------- *)

\* What the call to the speech-to-text service can end in.  ok: a 2xx answer,
\* with or without a text field.  Otherwise an axios error: its code, whether
\* its message contains 'timeout', the HTTP status of error.response (0 when
\* there is no response) and the error / detail strings of the body.
Upstream(ok, hasText, code, timeoutMsg, status, dataError, dataDetail) ==
  [ok |-> ok, hasText |-> hasText, code |-> code, timeoutMsg |-> timeoutMsg,
   status |-> status, dataError |-> dataError, dataDetail |-> dataDetail]

UpstreamOutcomes ==
  { Upstream(TRUE,  TRUE,  "", FALSE, 200, "", ""),
    Upstream(TRUE,  FALSE, "", FALSE, 200, "", ""),
    Upstream(FALSE, FALSE, "ECONNABORTED", TRUE,  0, "", ""),
    Upstream(FALSE, FALSE, "ECONNRESET",   FALSE, 0, "", ""),
    Upstream(FALSE, FALSE, "ERR_BAD_REQUEST",  FALSE, 401, "", "unauthorized"),
    Upstream(FALSE, FALSE, "ERR_BAD_REQUEST",  FALSE, 413, "", ""),
    Upstream(FALSE, FALSE, "ERR_BAD_REQUEST",  FALSE, 400, "bad audio", ""),
    Upstream(FALSE, FALSE, "ERR_BAD_REQUEST",  FALSE, 400, "", "bad model"),
    Upstream(FALSE, FALSE, "ERR_BAD_REQUEST",  FALSE, 400, "", ""),
    Upstream(FALSE, FALSE, "ERR_BAD_RESPONSE", FALSE, 500, "", "") }

\* NextResponse.json({ transcription }) / NextResponse.json({ error }, { status })
Response(status, transcription, error) ==
  [status |-> status, transcription |-> transcription, error |-> error]

NoResponse == Response(0, NoTranscript, << >>)

\* the validation before the call to the service (page.tsx:305-314);
\* NoResponse when the request passes it
Validate(req) ==
  IF req.apiKey = "" \/ req.file = NoFile
    THEN Response(400, NoTranscript, << "API key and file are required." >>)
  ELSE IF req.file.size > MAX_FILE_SIZE
    THEN Response(400, NoTranscript,
           << "File too large. Maximum size is 25MB. Please split your audio into smaller chunks." >>)
  ELSE NoResponse

\* const transcription = response.data.text ?? response.data
Transcription(out, file) == IF out.hasText THEN TextOf(file.id) ELSE BodyOf(file.id)

\* the catch block of POST (page.tsx:343-380)
ErrorResponse(out) ==
  IF out.code = "ECONNABORTED" \/ out.timeoutMsg
    THEN Response(408, NoTranscript,
           << "Transcription timed out. The file may be too large or the server is busy. Please try with a smaller file or split your audio into chunks." >>)
  ELSE IF out.status = 401
    THEN Response(401, NoTranscript, << "Invalid ElevenLabs API key." >>)
  ELSE IF out.status = 413
    THEN Response(413, NoTranscript,
           << "File too large for processing. Please use a smaller file or split your audio." >>)
  ELSE IF out.status = 400
    THEN Response(400, NoTranscript,
           << "ElevenLabs API error: ",
              IF out.dataError # "" THEN out.dataError
              ELSE IF out.dataDetail # "" THEN out.dataDetail
              ELSE "Bad request" >>)
  ELSE Response(500, NoTranscript,
         << "Error transcribing audio. Please try again or use a smaller file." >>)

\* a request of handleTranscribe on its way: sent by the browser, then held
\* by the route while it calls the service, then answered
\* calls counts the calls of the service it has made, outcome is what the
\* last of them ended in
NotCalled == Upstream(FALSE, FALSE, "", FALSE, 0, "", "")

Request(index, file, key) ==
  [index |-> index, file |-> file, apiKey |-> key, stage |-> "sent",
   calls |-> 0, outcome |-> NotCalled, response |-> NoResponse]

(* ---------------------------------------------------------------------- *)
(* HomePage: handlers                                                      *)
(* ---------------------------------------------------------------------- *)

PageInit ==
  /\ apiKey = ""
  /\ files = << >>
  /\ isTranscribing = FALSE
  /\ pc = "idle"
  /\ i = 0
  /\ snapFiles = << >>
  /\ snapKey = ""
  /\ inflight = {}
  /\ alertMsg = NoAlert
  /\ nextId = 1
  /\ subLog = << >>
  /\ touched = FALSE

\* onChange={(e) => setApiKey(e.target.value)}
SetApiKey(key) ==
  /\ Mounted
  /\ apiKey # key
  /\ apiKey' = key
  /\ alertMsg' = NoAlert
  /\ UNCHANGED << files, isTranscribing, pc, i, snapFiles, snapKey, inflight,
                  nextId, subLog, touched >>

\* handleFileChange (page.tsx:18-26)
handleFileChange(selected) ==
  LET newFiles == AcceptedFiles(selected, nextId) IN
  /\ Mounted
  /\ nextId + Len(newFiles) - 1 <= MaxFiles
  /\ files' = files \o newFiles
  /\ nextId' = nextId + Len(newFiles)
  /\ touched' = TRUE
  /\ alertMsg' = NoAlert
  /\ UNCHANGED << apiKey, isTranscribing, pc, i, snapFiles, snapKey, inflight,
                  subLog >>

\* the Remove button of a row: removeFile(fileStatus.file.name) (page.tsx:76-78, 167-172)
removeFile(row) ==
  /\ Mounted
  /\ row \in 1..Len(files)
  /\ files' = RemoveByName(files, files[row].file.name)
  /\ touched' = TRUE
  /\ alertMsg' = NoAlert
  /\ UNCHANGED << apiKey, isTranscribing, pc, i, snapFiles, snapKey, inflight,
                  nextId, subLog >>

\* the for loop of handleTranscribe from index k on, up to the next await or
\* to the end of the function.  fs is the state of files the updates apply
\* to, snap and key are what the function closed over, pending the requests
\* that stay in flight, log the submissions made so far.
Loop(fs, snap, key, k, pending, log) ==
  LET j == NextIndex(snap, k) IN
  IF j <= Len(snap)
    THEN /\ files' = updateFileStatus(fs, j, "transcribing", NoTranscript)
         /\ inflight' = pending \cup { Request(j, snap[j].file, key) }
         /\ subLog' = Append(log, j)
         /\ i' = j
         /\ pc' = "await"
         /\ isTranscribing' = TRUE
    ELSE /\ files' = fs
         /\ inflight' = pending
         /\ subLog' = log
         /\ i' = j
         /\ pc' = "idle"
         /\ isTranscribing' = FALSE

\* handleTranscribe, from the click to its first await (page.tsx:36-58)
handleTranscribe ==
  /\ Mounted
  /\ ~ButtonDisabled
  /\ IF apiKey = "" \/ Len(files) = 0
       THEN /\ alertMsg' = "Please provide an API key and select files to transcribe."
            /\ UNCHANGED << files, isTranscribing, pc, i, snapFiles, snapKey,
                            inflight, subLog, touched >>
       ELSE /\ snapFiles' = files
            /\ snapKey' = apiKey
            /\ touched' = FALSE
            /\ Loop(files, files, apiKey, 1, inflight, << >>)
            /\ alertMsg' = NoAlert
  /\ UNCHANGED << apiKey, nextId >>

\* the request never reaches the route, or its answer never reaches the page:
\* axios rejects with an error that has no response
NetworkError(req) ==
  /\ req \in inflight
  /\ req.stage = "sent"
  /\ inflight' = (inflight \ {req}) \cup { [req EXCEPT !.stage = "failed"] }
  /\ alertMsg' = NoAlert
  /\ UNCHANGED << apiKey, files, isTranscribing, pc, i, snapFiles, snapKey,
                  nextId, subLog, touched >>

\* POST calling the service before it looks at the request
RouteReceiveCallFirst(req) ==
  /\ req \in inflight
  /\ req.stage = "sent"
  /\ inflight' = (inflight \ {req}) \cup
       { [req EXCEPT !.stage = "upstream", !.calls = @ + 1] }
  /\ alertMsg' = NoAlert
  /\ UNCHANGED << apiKey, files, isTranscribing, pc, i, snapFiles, snapKey,
                  nextId, subLog, touched >>

\* POST up to its call of the service: rejected by the validation, or the
\* call is made (page.tsx:299-337)
RouteReceive(req) ==
  /\ req \in inflight
  /\ req.stage = "sent"
  /\ inflight' = (inflight \ {req}) \cup
       { IF Validate(req) # NoResponse
           THEN [req EXCEPT !.stage = "answered", !.response = Validate(req)]
           ELSE [req EXCEPT !.stage = "upstream", !.calls = @ + 1] }
  /\ alertMsg' = NoAlert
  /\ UNCHANGED << apiKey, files, isTranscribing, pc, i, snapFiles, snapKey,
                  nextId, subLog, touched >>

\* POST after the call of the service returned or threw (page.tsx:339-380)
RouteRespond(req, out) ==
  /\ req \in inflight
  /\ req.stage = "upstream"
  /\ inflight' = (inflight \ {req}) \cup
       { [req EXCEPT !.stage = "answered",
                     !.outcome = out,
                     !.response = IF out.ok
                       THEN Response(200, Transcription(out, req.file), << >>)
                       ELSE ErrorResponse(out)] }
  /\ alertMsg' = NoAlert
  /\ UNCHANGED << apiKey, files, isTranscribing, pc, i, snapFiles, snapKey,
                  nextId, subLog, touched >>

\* axios resolves on a 2xx status and rejects otherwise
Resolved(req) == req.stage = "answered" /\ req.response.status \in 200..299

Rejected(req) == req.stage = "failed" \/ (req.stage = "answered" /\ ~Resolved(req))

\* the alert of the catch block: only for status 401 (page.tsx:63-65)
AlertFor(req) ==
  IF req.stage = "answered" /\ req.response.status = 401
    THEN "Invalid ElevenLabs API key."
    ELSE NoAlert

\* handleTranscribe resumed after await axios.post: the try branch
\* (page.tsx:59), then the loop up to the next await
ContinueResolved(req) ==
  /\ pc = "await"
  /\ req \in inflight
  /\ Resolved(req)
  /\ Loop(updateFileStatus(files, i, "completed", req.response.transcription),
          snapFiles, snapKey, i + 1, inflight \ {req}, subLog)
  /\ alertMsg' = NoAlert
  /\ UNCHANGED << apiKey, snapFiles, snapKey, nextId, touched >>

\* the catch branch with a return after the 401 alert
ContinueRejectedAbortOn401(req) ==
  /\ pc = "await"
  /\ req \in inflight
  /\ Rejected(req)
  /\ Loop(updateFileStatus(files, i, "failed", NoTranscript),
          snapFiles, snapKey,
          IF AlertFor(req) # NoAlert THEN Len(snapFiles) + 1 ELSE i + 1,
          inflight \ {req}, subLog)
  /\ alertMsg' = AlertFor(req)
  /\ UNCHANGED << apiKey, snapFiles, snapKey, nextId, touched >>

\* handleTranscribe resumed after await axios.post: the catch branch
\* (page.tsx:60-66), then the loop up to the next await
ContinueRejected(req) ==
  /\ pc = "await"
  /\ req \in inflight
  /\ Rejected(req)
  /\ Loop(updateFileStatus(files, i, "failed", NoTranscript),
          snapFiles, snapKey, i + 1, inflight \ {req}, subLog)
  /\ alertMsg' = AlertFor(req)
  /\ UNCHANGED << apiKey, snapFiles, snapKey, nextId, touched >>

(* ---------------------------------------------------------------------- *)
(* JavaScript numbers: IEEE 754 binary64, round to nearest, ties to even   *)
(* ---------------------------------------------------------------------- *)

\* A double is Zero or sig * 2^exp.  sig is a natural number of exactly
\* SignificandBits bits, written in base 2^LimbBits, most significant limb
\* first: the leading bit alone in the first limb, then four full limbs.
\* Only the numbers splitAudioFile computes with are covered: not negative,
\* never subnormal, never overflowing.

\* bits of the significand of a binary64
SignificandBits == 53

\* bits of a limb: 53 = 1 + 4 * 13, and a limb times a factor below 2^17
\* stays below 2^31
LimbBits == 13

LimbBase == 2 ^ LimbBits

SigLimbs == (SignificandBits - 1) \div LimbBits + 1

Zero == [sig |-> << >>, exp |-> 0]

Zeros(n) == [k \in 1..n |-> 0]

\* the limbs without leading zero limbs
StripZeros(limbs) ==
  LET nz == { k \in 1..Len(limbs) : limbs[k] # 0 }
  IN  IF nz = {} THEN << >>
      ELSE SubSeq(limbs, CHOOSE k \in nz : \A j \in nz : k <= j, Len(limbs))

\* a natural number in base LimbBase
RECURSIVE LimbsOf(_)
LimbsOf(n) ==
  IF n = 0 THEN << >> ELSE Append(LimbsOf(n \div LimbBase), n % LimbBase)

RECURSIVE ValueOf(_)
ValueOf(limbs) ==
  IF limbs = << >> THEN 0
  ELSE ValueOf(SubSeq(limbs, 1, Len(limbs) - 1)) * LimbBase + limbs[Len(limbs)]

\* number of bits of a limb t > 0
BitLength(t) == CHOOSE h \in 1..LimbBits : 2 ^ (h - 1) <= t /\ t < 2 ^ h

\* limbs * 2^c for 0 < c <= LimbBits; one limb longer
ShiftLeft(limbs, c) ==
  LET n    == Len(limbs)
      low  == 2 ^ (LimbBits - c)
      L(k) == IF k < 1 \/ k > n THEN 0 ELSE limbs[k]
  IN  [k \in 1..(n + 1) |-> (L(k - 1) % low) * (2 ^ c) + (L(k) \div low)]

\* limbs \div 2^c for 0 <= c < LimbBits; same length
ShiftRight(limbs, c) ==
  LET low  == 2 ^ c
      L(k) == IF k < 1 THEN 0 ELSE limbs[k]
  IN  [k \in 1..Len(limbs) |->
         (L(k - 1) % low) * (2 ^ (LimbBits - c)) + (limbs[k] \div low)]

\* limbs + 1; the first limb may reach 2
Increment(limbs) ==
  LET room == { k \in 2..Len(limbs) : limbs[k] < LimbBase - 1 }
      p    == IF room = {} THEN 1 ELSE CHOOSE k \in room : \A j \in room : j <= k
  IN  [k \in 1..Len(limbs) |->
         IF k < p THEN limbs[k] ELSE IF k = p THEN limbs[k] + 1 ELSE 0]

\* the double nearest to limbs * 2^exp, or to a number just above it when
\* sticky (then limbs has more than SignificandBits bits); halfway cases go
\* to the even significand
RoundToDouble(limbs, exp, sticky) ==
  LET s == StripZeros(limbs)
  IN  IF s = << >> THEN Zero
      ELSE LET h == BitLength(s[1])
               \* the leading bit moved into a limb of its own
               b == IF h = 1 THEN s ELSE ShiftLeft(s, LimbBits + 1 - h)
               e == IF h = 1 THEN exp ELSE exp - (LimbBits + 1 - h)
               n == Len(b)
           IN  IF n <= SigLimbs
                 THEN [sig |-> b \o Zeros(SigLimbs - n),
                       exp |-> e - LimbBits * (SigLimbs - n)]
               ELSE LET kept  == SubSeq(b, 1, SigLimbs)
                        guard == b[SigLimbs + 1] >= LimbBase \div 2
                        rest  == \/ sticky
                                 \/ b[SigLimbs + 1] % (LimbBase \div 2) # 0
                                 \/ \E k \in (SigLimbs + 2)..n : b[k] # 0
                        up    == guard /\ (rest \/ kept[SigLimbs] % 2 = 1)
                        r     == IF up THEN Increment(kept) ELSE kept
                        e2    == e + LimbBits * (n - SigLimbs)
                    IN  IF r[1] = 2
                          THEN [sig |-> << 1 >> \o Zeros(SigLimbs - 1), exp |-> e2 + 1]
                          ELSE [sig |-> r, exp |-> e2]

\* a natural number below 2^31 as a double
FromInt(n) == RoundToDouble(LimbsOf(n), 0, FALSE)

\* limbs * k + carry, exactly
RECURSIVE TimesLimbs(_, _, _)
TimesLimbs(limbs, k, carry) ==
  IF limbs = << >> THEN LimbsOf(carry)
  ELSE LET v == limbs[Len(limbs)] * k + carry
       IN  Append(TimesLimbs(SubSeq(limbs, 1, Len(limbs) - 1), k, v \div LimbBase),
                  v % LimbBase)

\* x * k for a natural number k < 2^17
Times(x, k) ==
  IF x = Zero \/ k = 0 THEN Zero
  ELSE RoundToDouble(TimesLimbs(x.sig, k, 0), x.exp, FALSE)

\* long division of limbs by k: [q |-> quotient limbs, r |-> remainder]
RECURSIVE LongDivision(_, _)
LongDivision(limbs, k) ==
  IF limbs = << >> THEN [q |-> << >>, r |-> 0]
  ELSE LET front == LongDivision(SubSeq(limbs, 1, Len(limbs) - 1), k)
           v     == front.r * LimbBase + limbs[Len(limbs)]
       IN  [q |-> Append(front.q, v \div k), r |-> v % k]

\* x / k for a natural number 0 < k < 2^17; two zero limbs behind the
\* dividend leave the quotient more than SignificandBits + 2 bits
DividedBy(x, k) ==
  IF x = Zero THEN Zero
  ELSE LET d == LongDivision(x.sig \o Zeros(2), k)
       IN  RoundToDouble(d.q, x.exp - 2 * LimbBits, d.r # 0)

\* a + b + carry on limb sequences, exactly
RECURSIVE PlusLimbs(_, _, _)
PlusLimbs(a, b, carry) ==
  IF a = << >> /\ b = << >> THEN LimbsOf(carry)
  ELSE LET x == IF a = << >> THEN 0 ELSE a[Len(a)]
           y == IF b = << >> THEN 0 ELSE b[Len(b)]
           v == x + y + carry
       IN  Append(PlusLimbs(IF a = << >> THEN a ELSE SubSeq(a, 1, Len(a) - 1),
                            IF b = << >> THEN b ELSE SubSeq(b, 1, Len(b) - 1),
                            v \div LimbBase),
                  v % LimbBase)

\* limbs * 2^c for any c >= 0
Scaled(limbs, c) ==
  (IF c % LimbBits = 0 THEN limbs ELSE ShiftLeft(limbs, c % LimbBits))
    \o Zeros(c \div LimbBits)

\* x + y
Plus(x, y) ==
  IF x = Zero THEN y
  ELSE IF y = Zero THEN x
  ELSE LET e == IF x.exp <= y.exp THEN x.exp ELSE y.exp
       IN  RoundToDouble(PlusLimbs(Scaled(x.sig, x.exp - e),
                                   Scaled(y.sig, y.exp - e), 0), e, FALSE)

\* x < y
LessThan(x, y) ==
  IF y = Zero THEN FALSE
  ELSE IF x = Zero THEN TRUE
  ELSE IF x.exp # y.exp THEN x.exp < y.exp
  ELSE \E k \in 1..SigLimbs :
         /\ x.sig[k] < y.sig[k]
         /\ \A j \in 1..(k - 1) : x.sig[j] = y.sig[j]

\* Math.min(x, y)
MathMin(x, y) == IF LessThan(y, x) THEN y ELSE x

\* Math.floor(x), for x below 2^31
MathFloor(x) ==
  IF x = Zero \/ x.exp <= -SignificandBits THEN 0
  ELSE IF x.exp >= 0 THEN ValueOf(x.sig) * (2 ^ x.exp)
  ELSE LET drop == (-x.exp) \div LimbBits
       IN  ValueOf(ShiftRight(SubSeq(x.sig, 1, SigLimbs - drop), (-x.exp) % LimbBits))

(* ---------------------------------------------------------------------- *)
(* audioUtils: splitAudioFile (audioUtils.ts:23-88, page.tsx:494-559)      *)
(* ---------------------------------------------------------------------- *)

\* Times are doubles, in milliseconds, computed as the code computes them.

\* the chunk durations tried, as the decimal numerals 0.01, 0.025, 0.05 and
\* 0.125 (ms): below one sample period, between one and two, and several
\* sample periods long
ChunkDurations ==
  { [num |-> 1, den |-> 100], [num |-> 1, den |-> 40],
    [num |-> 1, den |-> 20],  [num |-> 1, den |-> 8] }

SampleRates == {44100, 48000}

\* the double a numeral denotes: the one nearest to num / den
NumberOf(numeral) == DividedBy(FromInt(numeral.num), numeral.den)

\* const totalDurationMs = (totalSamples / sampleRate) * 1000
totalDurationMs ==
  Times(DividedBy(FromInt(audioBuffer.length), audioBuffer.sampleRate), 1000)

\* Math.floor((time / 1000) * sampleRate)
SampleAt(time) == MathFloor(Times(DividedBy(time, 1000), audioBuffer.sampleRate))

\* const endTime = Math.min(currentTime + chunkDurationMs, totalDurationMs)
EndTimeUnclamped(from) == Plus(from, chunkDurationMs)

EndTime(from) == MathMin(Plus(from, chunkDurationMs), totalDurationMs)

\* the AudioChunk pushed by one pass of the loop.  Its blob is the WAV
\* encoding of the chunk buffer; copied[i] is the frame of the decoded
\* buffer that the copy loop wrote to frame i of the chunk buffer, in every
\* channel.
AudioChunk(start, end, index) ==
  [startTime |-> start, endTime |-> end, index |-> index,
   startSample |-> SampleAt(start), endSample |-> SampleAt(end),
   copied |-> [n \in 0..(SampleAt(end) - SampleAt(start) - 1) |-> SampleAt(start) + n]]

SplitIdle ==
  /\ splitPc = "unused"
  /\ audioBuffer = [sampleRate |-> 0, length |-> 0]
  /\ chunkDurationMs = Zero
  /\ currentTime = Zero
  /\ chunkIndex = 0
  /\ chunks = << >>
  /\ splitError = ""

\* a call splitAudioFile(file, chunkDurationMs) on a file that decodes to
\* length sample frames at sampleRate
SplitInit ==
  /\ PageInit
  /\ UtilIdle
  /\ splitPc = "reading"
  /\ \E sampleRate \in SampleRates, length \in 0..MaxSamples,
        numeral \in ChunkDurations :
       /\ audioBuffer = [sampleRate |-> sampleRate, length |-> length]
       /\ chunkDurationMs = NumberOf(numeral)
  /\ currentTime = Zero
  /\ chunkIndex = 0
  /\ chunks = << >>
  /\ splitError = ""

\* fileReader.onerror (audioUtils.ts:85)
readerError ==
  /\ splitPc = "reading"
  /\ splitPc' = "rejected"
  /\ splitError' = "Failed to read file"
  /\ UNCHANGED << audioBuffer, chunkDurationMs, currentTime, chunkIndex, chunks >>
  /\ UNCHANGED << pageVars, utilVars >>

\* fileReader.onload with decodeAudioData rejecting (audioUtils.ts:34, 80-82)
decodeError ==
  /\ splitPc = "reading"
  /\ splitPc' = "rejected"
  /\ splitError' = "EncodingError"
  /\ UNCHANGED << audioBuffer, chunkDurationMs, currentTime, chunkIndex, chunks >>
  /\ UNCHANGED << pageVars, utilVars >>

\* fileReader.onload with decodeAudioData resolving (audioUtils.ts:33-42)
decoded ==
  /\ splitPc = "reading"
  /\ splitPc' = "loop"
  /\ currentTime' = Zero
  /\ chunkIndex' = 0
  /\ chunks' = << >>
  /\ UNCHANGED << audioBuffer, chunkDurationMs, splitError >>
  /\ UNCHANGED << pageVars, utilVars >>

\* one pass of the while loop with a createBuffer that accepts a length of
\* zero frames
splitChunkEmptyBuffer ==
  /\ splitPc = "loop"
  /\ LessThan(currentTime, totalDurationMs)
  /\ LET endTime == EndTime(currentTime)
     IN  /\ chunks' = Append(chunks, AudioChunk(currentTime, endTime, chunkIndex))
         /\ currentTime' = endTime
         /\ chunkIndex' = chunkIndex + 1
  /\ UNCHANGED << splitPc, splitError, audioBuffer, chunkDurationMs >>
  /\ UNCHANGED << pageVars, utilVars >>

\* one pass of the while loop (audioUtils.ts:44-77).  createBuffer throws
\* NotSupportedError for a length of zero frames, which the catch block
\* turns into a rejection (audioUtils.ts:80-82).
splitChunk ==
  /\ splitPc = "loop"
  /\ LessThan(currentTime, totalDurationMs)
  /\ LET endTime == EndTime(currentTime)
         chunk == AudioChunk(currentTime, endTime, chunkIndex)
     IN  IF chunk.endSample - chunk.startSample = 0
           THEN /\ splitPc' = "rejected"
                /\ splitError' = "NotSupportedError"
                /\ UNCHANGED << currentTime, chunkIndex, chunks >>
           ELSE /\ chunks' = Append(chunks, chunk)
                /\ currentTime' = endTime
                /\ chunkIndex' = chunkIndex + 1
                /\ UNCHANGED << splitPc, splitError >>
  /\ UNCHANGED << audioBuffer, chunkDurationMs >>
  /\ UNCHANGED << pageVars, utilVars >>

\* the loop condition fails: resolve(chunks) (audioUtils.ts:44, 79)
splitResolve ==
  /\ splitPc = "loop"
  /\ ~LessThan(currentTime, totalDurationMs)
  /\ splitPc' = "resolved"
  /\ UNCHANGED << audioBuffer, chunkDurationMs, currentTime, chunkIndex, chunks,
                  splitError >>
  /\ UNCHANGED << pageVars, utilVars >>

(* ---------------------------------------------------------------------- *)
(* audioUtils: mergeTranscriptions (audioUtils.ts:139-144, page.tsx:611-616) *)
(* ---------------------------------------------------------------------- *)

\* A string is the sequence of its characters.

\* the separator given to join: '\n\n'
Separator == << "\n", "\n" >>

\* the texts of the fragments tried: empty, one character, and one that
\* itself ends in a newline
Texts == { << >>, << "a" >>, << "b", "\n" >> }

\* TranscriptionResult (audioUtils.ts:10-14); startTime and endTime are not
\* read by mergeTranscriptions
TranscriptionResults == [text : Texts, index : 0..MaxIndex]

RECURSIVE SeqsUpTo(_, _)
SeqsUpTo(S, n) ==
  IF n = 0 THEN { << >> }
  ELSE LET shorter == SeqsUpTo(S, n - 1)
       IN  shorter \cup { Append(q, x) : q \in { r \in shorter : Len(r) = n - 1 }, x \in S }

\* sort left as the identity
SortByIndexNot(rs) == rs

\* the insertion step of a stable ascending sort under the comparator
\* (a, b) => a.index - b.index: r goes after every entry it does not precede
RECURSIVE InsertByIndex(_, _)
InsertByIndex(sorted, r) ==
  IF sorted = << >> THEN << r >>
  ELSE IF Head(sorted).index - r.index <= 0
       THEN << Head(sorted) >> \o InsertByIndex(Tail(sorted), r)
       ELSE << r >> \o sorted

\* Array.prototype.sort((a, b) => a.index - b.index): ascending and stable
RECURSIVE SortByIndex(_)
SortByIndex(rs) ==
  IF rs = << >> THEN << >>
  ELSE InsertByIndex(SortByIndex(SubSeq(rs, 1, Len(rs) - 1)), rs[Len(rs)])

\* .map(result => result.text)
MapText(rs) == [k \in 1..Len(rs) |-> rs[k].text]

\* join that also closes the string with the separator
RECURSIVE JoinTrailing(_, _)
JoinTrailing(texts, sep) ==
  IF texts = << >> THEN << >>
  ELSE Head(texts) \o sep \o JoinTrailing(Tail(texts), sep)

\* Array.prototype.join(sep)
RECURSIVE Join(_, _)
Join(texts, sep) ==
  IF texts = << >> THEN << >>
  ELSE IF Len(texts) = 1 THEN Head(texts)
  ELSE Head(texts) \o sep \o Join(Tail(texts), sep)

\* the value of mergeTranscriptions(rs)
MergedText(rs) == Join(MapText(SortByIndex(rs)), Separator)

\* a call mergeTranscriptions(results) on any array within the bounds
MergeInit ==
  /\ PageInit
  /\ SplitIdle
  /\ ProbeIdle
  /\ EncodeIdle
  /\ mergePc = "called"
  /\ results \in SeqsUpTo(TranscriptionResults, MaxFragments)
  /\ arrived = results
  /\ merged = << >>

\* mergeTranscriptions (audioUtils.ts:139-144): sort mutates its argument
mergeTranscriptions ==
  /\ mergePc = "called"
  /\ results' = SortByIndex(results)
  /\ merged' = Join(MapText(SortByIndex(results)), Separator)
  /\ mergePc' = "returned"
  /\ UNCHANGED arrived
  /\ UNCHANGED << pageVars, splitVars, probeVars, encodeVars >>

(* ---------------------------------------------------------------------- *)
(* audioUtils: getAudioDuration, shouldSplitFileByDuration                  *)
(* (page.tsx:452-486)                                                       *)
(* ---------------------------------------------------------------------- *)

\* the files probed: sizes around the 10MB fallback, durations around the
\* thresholds, and a stream of unknown length
ProbeFiles ==
  [size : {0, FallbackSplitSize, FallbackSplitSize + 1},
   duration : {Finite(0), Finite(60000), Finite(SplitThresholdMs - 1),
               Finite(SplitThresholdMs), Finite(SplitThresholdMs + 1), Infinity}]

\* maxDurationMinutes * 60 * 1000 for 0, 1 and the default 2.67 minutes
Thresholds == {0, 60000, SplitThresholdMs}

\* the URL URL.createObjectURL(file) returns
ObjectUrl == "blob:1"

\* durationMs >= threshold
ExceedsOrEquals(durationMs, threshold) ==
  durationMs.kind = "Infinity" \/ durationMs.ms >= threshold

\* durationMs > threshold, on numbers that may be Infinity
Exceeds(durationMs, threshold) ==
  durationMs.kind = "Infinity" \/ durationMs.ms > threshold

\* settling a promise again has no effect
Settle(promise, state, value) ==
  IF promise.state = "pending" THEN Promise(state, value) ELSE promise

\* a call shouldSplitFileByDuration(file, maxDurationMinutes)
ProbeInit ==
  /\ PageInit
  /\ SplitIdle
  /\ MergeIdle
  /\ EncodeIdle
  /\ probePc = "called"
  /\ probeFile \in ProbeFiles
  /\ maxDurationMs \in Thresholds
  /\ audioEvents = {}
  /\ objectUrls = {}
  /\ durationPromise = Promise("pending", Finite(0))
  /\ shouldSplit = FALSE
  /\ probeLog = << >>

\* getAudioDuration up to audio.src = url (page.tsx:452-468); the caller
\* then waits for the promise
getAudioDuration ==
  /\ probePc = "called"
  /\ objectUrls' = objectUrls \cup {ObjectUrl}
  /\ probeLog' = Append(probeLog, "createObjectURL")
  /\ probePc' = "await"
  /\ UNCHANGED << probeFile, maxDurationMs, audioEvents, durationPromise, shouldSplit >>
  /\ UNCHANGED << pageVars, splitVars, mergeVars, encodeVars >>

\* the listener for 'loadedmetadata' (page.tsx:457-460)
loadedmetadata ==
  /\ probePc = "await"
  /\ audioEvents = {}
  /\ audioEvents' = audioEvents \cup {"loadedmetadata"}
  /\ objectUrls' = objectUrls \ {ObjectUrl}
  /\ durationPromise' = Settle(durationPromise, "resolved", probeFile.duration)
  /\ probeLog' = probeLog \o << "revokeObjectURL", "resolve" >>
  /\ UNCHANGED << probePc, probeFile, maxDurationMs, shouldSplit >>
  /\ UNCHANGED << pageVars, splitVars, mergeVars, encodeVars >>

\* the listener for 'error', rejecting while the URL is still held
errorKeepUrl ==
  /\ probePc \in {"await", "returned"}
  /\ "error" \notin audioEvents
  /\ audioEvents' = audioEvents \cup {"error"}
  /\ durationPromise' = Settle(durationPromise, "rejected", Finite(0))
  /\ probeLog' = probeLog \o << "reject" >>
  /\ UNCHANGED << probePc, probeFile, maxDurationMs, shouldSplit, objectUrls >>
  /\ UNCHANGED << pageVars, splitVars, mergeVars, encodeVars >>

\* the listener for 'error' (page.tsx:462-465): the file does not load, or
\* loading fails after the metadata was read
error ==
  /\ probePc \in {"await", "returned"}
  /\ "error" \notin audioEvents
  /\ audioEvents' = audioEvents \cup {"error"}
  /\ objectUrls' = objectUrls \ {ObjectUrl}
  /\ durationPromise' = Settle(durationPromise, "rejected", Finite(0))
  /\ probeLog' = probeLog \o << "revokeObjectURL", "reject" >>
  /\ UNCHANGED << probePc, probeFile, maxDurationMs, shouldSplit >>
  /\ UNCHANGED << pageVars, splitVars, mergeVars, encodeVars >>

\* shouldSplitFileByDuration after the await (page.tsx:479-485)
shouldSplitFileByDuration ==
  /\ probePc = "await"
  /\ durationPromise.state # "pending"
  /\ shouldSplit' = IF durationPromise.state = "resolved"
                      THEN Exceeds(durationPromise.value, maxDurationMs)
                      ELSE probeFile.size > FallbackSplitSize
  /\ probePc' = "returned"
  /\ UNCHANGED << probeFile, maxDurationMs, audioEvents, objectUrls,
                  durationPromise, probeLog >>
  /\ UNCHANGED << pageVars, splitVars, mergeVars, encodeVars >>

(* ---------------------------------------------------------------------- *)
(* audioUtils: audioBufferToBlob (audioUtils.ts:93-134, page.tsx:564-606)   *)
(* ---------------------------------------------------------------------- *)

\* Samples are Float32 values.  A finite sample is num / Unit; its products
\* with 0x8000 and 0x7FFF are exact in a double, so they are computed on
\* integers.
Unit == 4

Sample(num) == [kind |-> "number", num |-> num]
SampleNaN == [kind |-> "NaN", num |-> 0]
SamplePosInf == [kind |-> "Infinity", num |-> 0]
SampleNegInf == [kind |-> "-Infinity", num |-> 0]

\* the sample values tried: -2, -1, -0.75, -0.25, 0, 0.25, 0.5, 1, 1.5, NaN
\* and the infinities
SampleList ==
  << Sample(-2 * Unit), Sample(-Unit), Sample(-3), Sample(-1), Sample(0),
     Sample(1), Sample(2), Sample(Unit), Sample(6), SampleNaN,
     SamplePosInf, SampleNegInf >>

\* getChannelData(ch)[n] for a buffer filled from SampleList, starting at
\* its entry p and going frame by frame
ChannelData(numberOfChannels, length, p) ==
  [ch \in 1..numberOfChannels |->
     [n \in 1..length |->
        SampleList[((p + (n - 1) * numberOfChannels + (ch - 1)) % Len(SampleList)) + 1]]]

\* the sample left as it is
ClampNot(sample) == sample

\* Math.max(-1, Math.min(1, sample))
Clamp(sample) ==
  IF sample.kind = "NaN" THEN sample
  ELSE IF sample.kind = "Infinity" THEN Sample(Unit)
  ELSE IF sample.kind = "-Infinity" THEN Sample(-Unit)
  ELSE IF sample.num > Unit THEN Sample(Unit)
  ELSE IF sample.num < -Unit THEN Sample(-Unit)
  ELSE sample

\* sample < 0 ? sample * 0x8000 : sample * 0x7FFF, again over Unit
Scale(sample) ==
  IF sample.kind # "number" THEN sample
  ELSE IF sample.num < 0 THEN Sample(sample.num * 32768)
  ELSE Sample(sample.num * 32767)

\* ToInt16 of setInt16: NaN and the infinities give 0, a number is cut
\* towards zero and taken modulo 2^16; the result is the 16-bit pattern
ToInt16(value) ==
  IF value.kind # "number" THEN 0
  ELSE LET cut == IF value.num >= 0 THEN value.num \div Unit
                  ELSE -((-value.num) \div Unit)
       IN  cut % 65536

\* little-endian bytes of setUint16 and setUint32: the value modulo 2^16
\* and 2^32
Uint16LE(v) == << v % 256, (v \div 256) % 256 >>
Uint32LE(v) ==
  << v % 256, (v \div 256) % 256, (v \div 65536) % 256, (v \div 16777216) % 256 >>

\* writeString: the char codes of 'RIFF', 'WAVE', 'fmt ' and 'data'
RIFF == << 82, 73, 70, 70 >>
WAVE == << 87, 65, 86, 69 >>
Fmt == << 102, 109, 116, 32 >>
Data == << 100, 97, 116, 97 >>

\* the byte rate of a single channel
ByteRateMono(sampleRate, numberOfChannels) == sampleRate * 2

\* sampleRate * numberOfChannels * 2
ByteRate(sampleRate, numberOfChannels) == sampleRate * numberOfChannels * 2

\* the bytes the DataView holds at at..at + Len(bytes) - 1 replaced
SetBytes(bytes, at, written) ==
  [k \in 1..Len(bytes) |->
     IF k - 1 >= at /\ k - 1 < at + Len(written) THEN written[k - at] ELSE bytes[k]]

\* the 44 bytes written by audioUtils.ts:109-121
Header(numberOfChannels, length, sampleRate) ==
  RIFF \o Uint32LE(36 + length * numberOfChannels * 2) \o WAVE \o Fmt
    \o Uint32LE(16) \o Uint16LE(1) \o Uint16LE(numberOfChannels)
    \o Uint32LE(sampleRate) \o Uint32LE(ByteRate(sampleRate, numberOfChannels))
    \o Uint16LE(numberOfChannels * 2) \o Uint16LE(16)
    \o Data \o Uint32LE(length * numberOfChannels * 2)

\* a call audioBufferToBlob(audioBuffer, mimeType)
EncodeInit ==
  /\ PageInit
  /\ SplitIdle
  /\ MergeIdle
  /\ ProbeIdle
  /\ encPc = "called"
  /\ \E numberOfChannels \in 1..MaxChannels, length \in 0..MaxFrames,
        sampleRate \in SampleRates, p \in 0..(Len(SampleList) - 1) :
       encBuffer = [numberOfChannels |-> numberOfChannels, length |-> length,
                    sampleRate |-> sampleRate,
                    channelData |-> ChannelData(numberOfChannels, length, p)]
  /\ view = << >>
  /\ offset = 0
  /\ frame = 0
  /\ channel = 0
  /\ blob = << >>

\* audioBufferToBlob up to the loops: the zeroed ArrayBuffer, the header,
\* offset = 44 (audioUtils.ts:94-124)
audioBufferToBlob ==
  /\ encPc = "called"
  /\ view' = SetBytes(Zeros(44 + encBuffer.length * encBuffer.numberOfChannels * 2), 0,
                      Header(encBuffer.numberOfChannels, encBuffer.length,
                             encBuffer.sampleRate))
  /\ offset' = 44
  /\ frame' = 0
  /\ channel' = 0
  /\ encPc' = "loop"
  /\ UNCHANGED << encBuffer, blob >>
  /\ UNCHANGED << pageVars, splitVars, mergeVars, probeVars >>

\* one pass of the inner loop (audioUtils.ts:126-130) and the loop headers
\* that follow it
writeSample ==
  /\ encPc = "loop"
  /\ frame < encBuffer.length
  /\ LET sample == Clamp(encBuffer.channelData[channel + 1][frame + 1])
     IN  view' = SetBytes(view, offset, Uint16LE(ToInt16(Scale(sample))))
  /\ offset' = offset + 2
  /\ IF channel + 1 < encBuffer.numberOfChannels
       THEN channel' = channel + 1 /\ frame' = frame
       ELSE channel' = 0 /\ frame' = frame + 1
  /\ UNCHANGED << encPc, encBuffer, blob >>
  /\ UNCHANGED << pageVars, splitVars, mergeVars, probeVars >>

\* the outer loop ends: return new Blob([buffer], ...) (audioUtils.ts:133)
encodeReturn ==
  /\ encPc = "loop"
  /\ ~(frame < encBuffer.length)
  /\ blob' = view
  /\ encPc' = "returned"
  /\ UNCHANGED << encBuffer, view, offset, frame, channel >>
  /\ UNCHANGED << pageVars, splitVars, mergeVars, probeVars >>

(* ---------------------------------------------------------------------- *)
(* Specifications                                                          *)
(* ---------------------------------------------------------------------- *)

Init == PageInit /\ SplitIdle /\ UtilIdle

Next ==
  \/ UNCHANGED << splitVars, utilVars >> /\ \E key \in {"", "sk-1"} : SetApiKey(key)
  \/ UNCHANGED << splitVars, utilVars >> /\ \E selected \in Selections : handleFileChange(selected)
  \/ UNCHANGED << splitVars, utilVars >> /\ \E row \in 1..Len(files) : removeFile(row)
  \/ UNCHANGED << splitVars, utilVars >> /\ handleTranscribe
  \/ UNCHANGED << splitVars, utilVars >> /\ \E req \in inflight : NetworkError(req)
  \/ UNCHANGED << splitVars, utilVars >> /\ \E req \in inflight : RouteReceive(req)
  \/ UNCHANGED << splitVars, utilVars >> /\ \E req \in inflight, out \in UpstreamOutcomes :
                                             RouteRespond(req, out)
  \/ UNCHANGED << splitVars, utilVars >> /\ \E req \in inflight : ContinueResolved(req)
  \/ UNCHANGED << splitVars, utilVars >> /\ \E req \in inflight : ContinueRejected(req)

\* the page: the job list, the runs of handleTranscribe and the route
Spec == Init /\ [][Next]_vars

\* a request to /api/transcribe gets its answer or its error
RequestReturns ==
  /\ UNCHANGED << splitVars, utilVars >>
  /\ \E req \in inflight :
       \/ NetworkError(req)
       \/ RouteReceive(req)
       \/ \E out \in UpstreamOutcomes : RouteRespond(req, out)

\* the promise handleTranscribe awaits has settled and the function resumes
Resumes ==
  /\ UNCHANGED << splitVars, utilVars >>
  /\ \E req \in inflight : ContinueResolved(req) \/ ContinueRejected(req)

\* the page when every request returns and every settled await resumes
LiveSpec == Spec /\ WF_vars(RequestReturns) /\ WF_vars(Resumes)

SplitNext ==
  \/ readerError
  \/ decodeError
  \/ decoded
  \/ splitChunk
  \/ splitResolve

\* one call of splitAudioFile, for every input within the bounds
SplitSpec == SplitInit /\ [][SplitNext]_vars

MergeNext == mergeTranscriptions

\* one call of mergeTranscriptions, for every input within the bounds
MergeSpec == MergeInit /\ [][MergeNext]_vars

ProbeNext ==
  \/ getAudioDuration
  \/ loadedmetadata
  \/ error
  \/ shouldSplitFileByDuration

\* one call of shouldSplitFileByDuration, for every input tried
ProbeSpec == ProbeInit /\ [][ProbeNext]_vars

EncodeNext ==
  \/ audioBufferToBlob
  \/ writeSample
  \/ encodeReturn

\* one call of audioBufferToBlob, for every buffer tried
EncodeSpec == EncodeInit /\ [][EncodeNext]_vars

(* ---------------------------------------------------------------------- *)
(* Properties of the job list                                              *)
(* ---------------------------------------------------------------------- *)

\* the File objects that have an entry in fs
Ids(fs) == { fs[k].file.id : k \in 1..Len(fs) } \ {0}

\* the entry of the File with this id (File objects are never listed twice)
EntryOf(fs, id) == fs[CHOOSE k \in 1..Len(fs) : fs[k].file.id = id]

\* how many times the run submitted index k of the array it closed over
Count(log, k) == Cardinality({ n \in 1..Len(log) : log[n] = k })

\* C1: in every reachable state, an entry of the job list has a transcript
\* if and only if its status is completed.
C1_TranscriptIffCompleted ==
  \A k \in 1..Len(files) :
    (files[k].transcription # NoTranscript) <=> (files[k].status = "completed")

\* C1 witness: a list with a completed job that carries its transcript next
\* to a failed job that carries none, after a file was removed.
C1_Witness ==
  /\ touched
  /\ \E k, m \in 1..Len(files) :
       /\ files[k].status = "completed" /\ files[k].transcription # NoTranscript
       /\ files[m].status = "failed" /\ files[m].transcription = NoTranscript

\* C2: once a run has started and no file was added or removed since, every
\* job that was completed at the start has not been submitted and is
\* unchanged, and every job submitted was pending or failed at the start.
C2_IdempotentResume ==
  (~touched /\ snapFiles # << >>) =>
    /\ \A k \in 1..Len(snapFiles) :
         snapFiles[k].status = "completed" =>
           Count(subLog, k) = 0 /\ files[k] = snapFiles[k]
    /\ \A n \in 1..Len(subLog) :
         snapFiles[subLog[n]].status \in {"pending", "failed"}

\* the status changes the state machine of a job allows
AllowedStatusChanges ==
  { << "pending", "transcribing" >>, << "failed", "transcribing" >>,
    << "transcribing", "completed" >>, << "transcribing", "failed" >> }

\* C3: in every step, a job that stays in the list keeps its status and
\* transcript or moves along pending -> transcribing -> completed | failed
\* (failed -> transcribing on a later run); a completed job never changes.
C3_StatusMachine ==
  [][ \A id \in Ids(files) \cap Ids(files') :
        LET old == EntryOf(files, id)
            new == EntryOf(files', id)
        IN  \/ old = new
            \/ /\ << old.status, new.status >> \in AllowedStatusChanges
               /\ old.status # "completed" ]_vars

\* C4: within one run every job that was not completed at the start is
\* submitted exactly once as soon as the loop has reached it, whatever the
\* earlier files ended in, and no job is submitted twice; after the run
\* (i past the end) this covers the whole list the run started with.
C4_EachSubmittedOnce ==
  \A k \in 1..Len(snapFiles) :
    Count(subLog, k) =
      IF snapFiles[k].status # "completed" /\ k <= i THEN 1 ELSE 0

\* C4 witness: the previous file was answered with 401 (the alert was just
\* raised) and the request of a later file is already in flight.
C4_Witness ==
  /\ alertMsg = "Invalid ElevenLabs API key."
  /\ pc = "await"
  /\ Len(subLog) >= 2
  /\ inflight # {}

\* C5: in the step that resumes handleTranscribe with a failed submission,
\* the job of the submitted file, if it is still listed, becomes failed.
C5_FailureMarksJobFailed ==
  [][ \A req \in inflight :
        (pc = "await" /\ Rejected(req) /\ req \notin inflight') =>
          \A k \in 1..Len(files') :
            files'[k].file.id = req.file.id => files'[k].status = "failed" ]_vars

\* the failure reason a response of the route stands for (status 0: no
\* response at all)
ReasonOf(status) ==
  CASE status = 408 -> "Timeout"
    [] status = 401 -> "InvalidCredential"
    [] status = 413 -> "PayloadTooLarge"
    [] status = 400 -> "BadInput"
    [] OTHER -> "ServiceError"

\* the responses the route can fail with
FailureResponses ==
  { ErrorResponse(out) : out \in { o \in UpstreamOutcomes : ~o.ok } }

\* C6: in the step that resumes handleTranscribe after the call to the
\* service failed, the user is shown a message, and it differs from the
\* message shown for every other failure reason.
C6_ReasonSurfaced ==
  [][ \A req \in inflight :
        (pc = "await" /\ req.stage = "answered" /\ req.calls > 0
           /\ ~Resolved(req) /\ req \notin inflight') =>
          /\ alertMsg' # NoAlert
          /\ \A other \in FailureResponses :
               ReasonOf(other.status) # ReasonOf(req.response.status) =>
                 AlertFor([req EXCEPT !.response = other]) # alertMsg' ]_vars

\* chunkDurationMs = 2.67 * 60 * 1000 (page.tsx:496)
DefaultChunkMs == 160200

CeilDiv(a, b) == (a + b - 1) \div b

\* C7: after a run, a job that was not completed at the start was submitted
\* once per segment if its duration exceeds the split threshold, and in a
\* single request otherwise.
C7_SplitLongFiles ==
  (pc = "idle" /\ snapFiles # << >>) =>
    \A k \in 1..Len(snapFiles) :
      snapFiles[k].status # "completed" =>
        Count(subLog, k) =
          IF snapFiles[k].file.durationMs > SplitThresholdMs
            THEN CeilDiv(snapFiles[k].file.durationMs, DefaultChunkMs)
            ELSE 1

\* C8: at most one request is in flight, it is the request of the index the
\* loop is suspended at, submissions follow list order, and while a run is
\* in progress the Transcribe button cannot start another.
C8_OneInFlight ==
  /\ Cardinality(inflight) <= 1
  /\ \A req \in inflight : pc = "await" /\ isTranscribing /\ req.index = i
  /\ \A n \in 1..(Len(subLog) - 1) : subLog[n] < subLog[n + 1]
  /\ (pc = "await" => isTranscribing)
  /\ (isTranscribing => ~ENABLED handleTranscribe)

\* C8 witness: the first file's request has returned and the second file's
\* request is the only one in flight.
C8_Witness ==
  /\ Len(subLog) = 2
  /\ Cardinality(inflight) = 1
  /\ \E req \in inflight : req.index = 2 /\ req.stage = "upstream"

(* ---------------------------------------------------------------------- *)
(* Properties of splitAudioFile                                            *)
(* ---------------------------------------------------------------------- *)

\* the promise has settled
SplitSettled == splitPc \in {"resolved", "rejected"}

\* the file was read and decoded
SplitDecoded == splitError \notin {"Failed to read file", "EncodingError"}

\* the chunks start at 0, end at the total duration and leave no gap
Contiguous(cs) ==
  /\ cs # << >> => cs[1].startTime = Zero /\ cs[Len(cs)].endTime = totalDurationMs
  /\ \A n \in 1..(Len(cs) - 1) : cs[n].endTime = cs[n + 1].startTime

\* the numeral the chunk duration was given as
ChunkNumeral ==
  CHOOSE numeral \in ChunkDurations : NumberOf(numeral) = chunkDurationMs

\* ceil(T / d) for T = 1000 * length / sampleRate and d the chunk duration
SegmentsExpected ==
  CeilDiv(audioBuffer.length * 1000 * ChunkNumeral.den,
          audioBuffer.sampleRate * ChunkNumeral.num)

\* C9: for every chunk duration and every decoded file, splitAudioFile
\* returns exactly ceil(T/d) segments, the first starting at 0, the last
\* ending at T, each starting where the one before it ends.
C9_CeilSegments ==
  (SplitSettled /\ SplitDecoded) =>
    /\ splitPc = "resolved"
    /\ Len(chunks) = SegmentsExpected
    /\ Contiguous(chunks)

\* what does hold of C9: whenever splitAudioFile resolves, its segments are
\* contiguous from 0 to T, and there are ceil(T/d) of them or, when the
\* rounded sums of d fall short of T, one more.
SplitResultWhenResolved ==
  splitPc = "resolved" =>
    /\ Len(chunks) \in {SegmentsExpected, SegmentsExpected + 1}
    /\ Contiguous(chunks)

\* C10: a decoded file with 0 < T <= d yields exactly one segment, from 0 to
\* T with index 0; a decoded file of zero sample frames yields the empty
\* list and no error.
C10_EdgeCases ==
  /\ (SplitSettled /\ SplitDecoded /\ LessThan(Zero, totalDurationMs)
        /\ ~LessThan(chunkDurationMs, totalDurationMs)) =>
       /\ splitPc = "resolved"
       /\ Len(chunks) = 1
       /\ chunks[1].startTime = Zero
       /\ chunks[1].endTime = totalDurationMs
       /\ chunks[1].index = 0
  /\ (SplitSettled /\ SplitDecoded /\ audioBuffer.length = 0) =>
       /\ splitPc = "resolved"
       /\ chunks = << >>
       /\ splitError = ""

\* C10 witness: a file shorter than one chunk has resolved with its single
\* segment.
C10_Witness ==
  /\ splitPc = "resolved"
  /\ LessThan(Zero, totalDurationMs)
  /\ LessThan(totalDurationMs, chunkDurationMs)
  /\ Len(chunks) = 1

\* sample frames of the chunks together
RECURSIVE FramesIn(_)
FramesIn(cs) ==
  IF cs = << >> THEN 0
  ELSE (Head(cs).endSample - Head(cs).startSample) + FramesIn(Tail(cs))

\* C17: the sample ranges [startSample, endSample) of the segments that
\* splitAudioFile returns for a file of N sample frames partition [0, N): the
\* first starts at 0, each starts where the one before it ends, the last
\* ends at N and the frame counts sum to N; frame i of every segment is a
\* copy of frame startSample + i of the file.
C17_SamplePartition ==
  splitPc = "resolved" =>
    /\ audioBuffer.length > 0 =>
         /\ chunks # << >>
         /\ chunks[1].startSample = 0
         /\ chunks[Len(chunks)].endSample = audioBuffer.length
    /\ \A n \in 1..(Len(chunks) - 1) : chunks[n + 1].startSample = chunks[n].endSample
    /\ FramesIn(chunks) = audioBuffer.length
    /\ \A n \in 1..Len(chunks) :
         /\ DOMAIN chunks[n].copied = 0..(chunks[n].endSample - chunks[n].startSample - 1)
         /\ \A k \in DOMAIN chunks[n].copied :
              chunks[n].copied[k] = chunks[n].startSample + k

DistinctIndices(rs) ==
  \A k, l \in 1..Len(rs) : k # l => rs[k].index # rs[l].index

\* rs read in the order p
Permuted(rs, p) == [k \in 1..Len(rs) |-> rs[p[k]]]

\* for distinct indices: the place of rs[k] when counting indices upwards
RankOf(rs, k) == 1 + Cardinality({ l \in 1..Len(rs) : rs[l].index < rs[k].index })

AscendingTexts(rs) ==
  [n \in 1..Len(rs) |-> rs[CHOOSE k \in 1..Len(rs) : RankOf(rs, k) = n].text]

\* C11: for fragments with pairwise distinct indices, mergeTranscriptions
\* returns the fragment texts in ascending index order, and returns that same
\* text for every permutation of its input.
C11_OrderIndependent ==
  (mergePc = "returned" /\ DistinctIndices(arrived)) =>
     /\ merged = Join(AscendingTexts(arrived), Separator)
     /\ \A p \in Permutations(1..Len(arrived)) :
          MergedText(Permuted(arrived, p)) = merged

\* three fragments with distinct indices and distinct texts arrived out of
\* order and were merged
C11_Witness ==
  /\ mergePc = "returned"
  /\ Len(arrived) = 3
  /\ DistinctIndices(arrived)
  /\ arrived[1].index > arrived[2].index
  /\ arrived[3].index > arrived[2].index
  /\ arrived[1].text # arrived[2].text
  /\ arrived[2].text # arrived[3].text
  /\ arrived[1].text # arrived[3].text

\* the order of a stable ascending sort: by index, ties by original position
StableOrder(rs) ==
  CHOOSE p \in Permutations(1..Len(rs)) :
    \A k, l \in 1..Len(rs) :
      k < l => \/ rs[p[k]].index < rs[p[l]].index
               \/ rs[p[k]].index = rs[p[l]].index /\ p[k] < p[l]

\* characters of the merged string before text k, when every text but the
\* last is followed by two separator characters
RECURSIVE OffsetOf(_, _)
OffsetOf(ts, k) ==
  IF k = 1 THEN 0 ELSE OffsetOf(ts, k - 1) + Len(ts[k - 1]) + 2

\* C12: mergeTranscriptions returns the texts, ordered by index with equal
\* indices in their original order, each followed by exactly two newlines
\* except the last, and nothing else: the empty string for no fragment and
\* the text itself for one fragment.
C12_JoinedByBlankLine ==
  mergePc = "returned" =>
    LET ts == MapText(Permuted(arrived, StableOrder(arrived)))
        n  == Len(ts)
    IN  /\ n = 0 => merged = << >>
        /\ n = 1 => merged = arrived[1].text
        /\ n > 0 => Len(merged) = OffsetOf(ts, n) + Len(ts[n])
        /\ \A k \in 1..n :
             SubSeq(merged, OffsetOf(ts, k) + 1, OffsetOf(ts, k) + Len(ts[k])) = ts[k]
        /\ \A k \in 1..(n - 1) :
             /\ merged[OffsetOf(ts, k) + Len(ts[k]) + 1] = "\n"
             /\ merged[OffsetOf(ts, k) + Len(ts[k]) + 2] = "\n"

\* two fragments of equal index and different texts, behind a fragment of
\* larger index, were merged
C12_Witness ==
  /\ mergePc = "returned"
  /\ Len(arrived) = 3
  /\ arrived[1].index > arrived[2].index
  /\ arrived[2].index = arrived[3].index
  /\ arrived[2].text = << "b", "\n" >>
  /\ arrived[3].text = << "a" >>
  /\ merged = << "b", "\n", "\n", "\n", "a", "\n", "\n" >> \o arrived[1].text


\* C20: in the step that resumes handleTranscribe with the outcome of a
\* request whose file is still in the list shown, the job of that file gets the
\* result (completed with the transcript returned, or failed), and no other
\* job becomes or changes a completed or failed one.
C20_ResultOnOwnJob ==
  [][ \A req \in inflight :
        (/\ pc = "await"
         /\ Mounted
         /\ Resolved(req) \/ Rejected(req)
         /\ req \notin inflight'
         /\ req.file.id \in Ids(files)) =>
          /\ req.file.id \in Ids(files')
          /\ EntryOf(files', req.file.id).status =
               IF Resolved(req) THEN "completed" ELSE "failed"
          /\ EntryOf(files', req.file.id).transcription =
               IF Resolved(req) THEN req.response.transcription ELSE NoTranscript
          /\ \A k \in 1..Len(files') :
               (files'[k].file.id # req.file.id
                  /\ files'[k].status \in {"completed", "failed"}) =>
                 \E j \in 1..Len(files) : files[j] = files'[k] ]_vars

\* the positions of the jobs shown as being transcribed
Transcribing(fs) == { k \in 1..Len(fs) : fs[k].status = "transcribing" }

\* C21: while the page shows the list, no job is transcribing when no run is
\* in progress (isTranscribing is false), and at most one job is
\* transcribing at any time, whatever files are removed or added during a
\* run.
C21_TranscribingOnlyInRun ==
  Mounted =>
    /\ ~isTranscribing => Transcribing(files) = {}
    /\ Cardinality(Transcribing(files)) <= 1

\* the step adds files at the end of the list (handleFileChange)
AddsFiles ==
  /\ Len(files') >= Len(files)
  /\ SubSeq(files', 1, Len(files)) = files
  /\ \A k \in (Len(files) + 1)..Len(files') :
       /\ files'[k].file # NoFile
       /\ files'[k].status = "pending"

\* the step removes the files of one name (removeFile)
RemovesFiles ==
  \E k \in 1..Len(files) :
    /\ Len(files') < Len(files)
    /\ \A n \in 1..Len(files') : files'[n].file.name # files[k].file.name

\* C22: every entry of the job list refers to a file, and the number of
\* jobs changes only when files are added or removed, never by a status
\* update, whatever is removed during a run.
C22_EveryJobHasFile ==
  [][ Mounted =>
        /\ \A k \in 1..Len(files') : files'[k].file # NoFile
        /\ Len(files') # Len(files) => (AddsFiles \/ RemovesFiles) ]_vars

\* the positions of fs whose file is not called fileName
KeptBy(fs, fileName) == { k \in 1..Len(fs) : fs[k].file.name # fileName }

\* C24: a step that removes files removes, for one file name, every job
\* whose file has that name, and leaves the other jobs as they were (file,
\* status, transcript) and in the order they had.
C24_RemoveByName ==
  [][ Len(files') < Len(files) =>
        \E k \in 1..Len(files) :
          LET kept == KeptBy(files, files[k].file.name) IN
          /\ Len(files') = Cardinality(kept)
          /\ \A n \in kept :
               files'[Cardinality({ j \in kept : j <= n })] = files[n] ]_vars

\* C24 witness: a run started on three files, the first and the third of
\* one name; while the first is in flight a click on Remove has taken out
\* both, and the second is all that is left, as it was.
C24_Witness ==
  /\ pc = "await"
  /\ i = 1
  /\ Len(snapFiles) = 3
  /\ snapFiles[1].file.name = snapFiles[3].file.name
  /\ snapFiles[2].file.name # snapFiles[1].file.name
  /\ files = << snapFiles[2] >>

\* the page admits files of up to 100 MB only, and the route answers a
\* request for a file over 25 MB with status 400 without calling the
\* service
LargeFileRejectedByRoute ==
  /\ \A k \in 1..Len(files) : files[k].file.size <= UploadLimit
  /\ \A req \in inflight :
       req.file.size > MAX_FILE_SIZE =>
         /\ req.calls = 0
         /\ req.stage \in {"sent", "failed", "answered"}
         /\ req.stage = "answered" => req.response.status = 400

\* C25: no job of the list shown whose file is larger than 25 MB is
\* completed: the page admits files of up to 100 MB, the route rejects a
\* file over 25 MB with status 400 before any call of the service.
C25_LargeNeverCompleted ==
  /\ LargeFileRejectedByRoute
  /\ Mounted =>
       \A k \in 1..Len(files) :
         files[k].file.size > MAX_FILE_SIZE => files[k].status # "completed"

\* a started run ends: isTranscribing returns to false
RunEnds == isTranscribing ~> ~isTranscribing

\* the step that ends a run leaves every job of the list the run started
\* with, the completed ones apart, submitted exactly once
VisitsSnapshot ==
  [][ (isTranscribing /\ ~isTranscribing') =>
        \A k \in 1..Len(snapFiles) :
          Count(subLog', k) = IF Skips(snapFiles[k]) THEN 0 ELSE 1 ]_vars

\* during a run only files of the list it started with are submitted
AddedNotSubmitted ==
  isTranscribing => \A req \in inflight : req.file.id \in Ids(snapFiles)

\* the files in the list that were added since the run started
AddedDuringRun == Ids(files) \ Ids(snapFiles)

\* C26: when every request returns, a started run ends (isTranscribing
\* returns to false) having submitted each job of the list it started with;
\* the files added during the run are not submitted in it, and while the
\* page shows the list they stay pending, whatever is added or removed.
C26_RunTerminates ==
  /\ RunEnds
  /\ VisitsSnapshot
  /\ [][ isTranscribing =>
          /\ AddedNotSubmitted'
          /\ Mounted =>
               \A id \in AddedDuringRun :
                 id \in Ids(files') => EntryOf(files', id).status = "pending" ]_vars

(* ---------------------------------------------------------------------- *)
(* Properties of the route                                                 *)
(* ---------------------------------------------------------------------- *)

\* error codes of a call that got no answer: the timeout of axios and a
\* connection that was reset
ConnectionOrTimeoutCodes == { "ECONNABORTED", "ECONNRESET" }

\* the failure-mapping table, read on what the call of the service ended in
TableReason(out) ==
  IF out.status = 0 /\ out.code \in ConnectionOrTimeoutCodes THEN "Timeout"
  ELSE IF out.status = 401 THEN "InvalidCredential"
  ELSE IF out.status = 413 THEN "PayloadTooLarge"
  ELSE IF out.status = 400 THEN "BadInput"
  ELSE "ServiceError"

\* the message of the service in the body of its answer, if it sent one
ServiceMessage(out) ==
  IF out.dataError # "" THEN out.dataError ELSE out.dataDetail

\* C13: whenever the route has answered after its call of the service
\* failed, the reason it reports is the one the table gives for that failure
\* (connection failure or timeout: Timeout, 401: InvalidCredential, 413:
\* PayloadTooLarge, 400: BadInput, anything else: ServiceError), and a
\* BadInput answer carries the message the service sent.
C13_FailureMapping ==
  \A req \in inflight :
    (req.stage = "answered" /\ req.calls > 0 /\ ~req.outcome.ok) =>
      /\ ReasonOf(req.response.status) = TableReason(req.outcome)
      /\ (req.outcome.status = 400 /\ ServiceMessage(req.outcome) # "") =>
            req.response.error[2] = ServiceMessage(req.outcome)

\* what does hold: the table with Timeout for timeouts only (code
\* ECONNABORTED or a message containing 'timeout') and ServiceError for every
\* other call that got no answer
FailureMappingTimeoutOnly ==
  \A req \in inflight :
    (req.stage = "answered" /\ req.calls > 0 /\ ~req.outcome.ok) =>
      ReasonOf(req.response.status) =
        IF req.outcome.code = "ECONNABORTED" \/ req.outcome.timeoutMsg THEN "Timeout"
        ELSE IF req.outcome.status = 0 THEN "ServiceError"
        ELSE TableReason(req.outcome)


\* C14: a request has never caused more than one call of the service; once
\* the route has answered it, it has caused exactly one call if it carried an
\* API key and a file of at most MAX_FILE_SIZE bytes (whether that call
\* succeeded or failed), and none otherwise.
C14_SingleCall ==
  \A req \in inflight :
    /\ req.calls <= 1
    /\ req.stage = "answered" =>
         req.calls = IF /\ req.apiKey # ""
                        /\ req.file # NoFile
                        /\ req.file.size <= MAX_FILE_SIZE
                       THEN 1 ELSE 0

\* the route has answered after its one call of the service failed
C14_Witness ==
  \E req \in inflight :
    /\ req.stage = "answered"
    /\ req.calls = 1
    /\ ~req.outcome.ok
    /\ req.response.status = 500


(* ---------------------------------------------------------------------- *)
(* Properties of the duration probe                                        *)
(* ---------------------------------------------------------------------- *)

\* C15: shouldSplitFileByDuration returns true exactly when the probed
\* duration is strictly greater than the threshold, and only when the probe
\* failed does it return by the size rule: true exactly when the file is
\* larger than 10 MB.
C15_SplitDecision ==
  probePc = "returned" =>
    IF "loadedmetadata" \in audioEvents
      THEN shouldSplit <=> \/ probeFile.duration.kind = "Infinity"
                           \/ probeFile.duration.ms > maxDurationMs
      ELSE shouldSplit <=> probeFile.size > 10 * 1024 * 1024

\* a file of more than 10 MB whose duration is exactly the default threshold
\* was probed and not flagged
C15_Witness ==
  /\ probePc = "returned"
  /\ "loadedmetadata" \in audioEvents
  /\ maxDurationMs = SplitThresholdMs
  /\ probeFile.duration = Finite(SplitThresholdMs)
  /\ probeFile.size > FallbackSplitSize
  /\ ~shouldSplit

\* C16: every resolve and every reject of getAudioDuration comes after a
\* revokeObjectURL of the URL it created, so that no object URL is held
\* once the promise is settled.
C16_UrlReleased ==
  /\ durationPromise.state # "pending" => objectUrls = {}
  /\ \A k \in 1..Len(probeLog) :
       probeLog[k] \in {"resolve", "reject"} =>
         /\ k > 1
         /\ probeLog[k - 1] = "revokeObjectURL"
         /\ \E c \in 1..(k - 2) : probeLog[c] = "createObjectURL"

\* both listeners have run: the metadata was read, then loading failed
C16_Witness ==
  /\ audioEvents = {"loadedmetadata", "error"}
  /\ durationPromise.state = "resolved"
  /\ probeLog = << "createObjectURL", "revokeObjectURL", "resolve",
                   "revokeObjectURL", "reject" >>


(* ---------------------------------------------------------------------- *)
(* Properties of audioBufferToBlob                                         *)
(* ---------------------------------------------------------------------- *)

\* the numbers read back from little-endian bytes at a byte offset
Uint16At(bytes, at) == bytes[at + 1] + 256 * bytes[at + 2]
Uint32At(bytes, at) ==
  bytes[at + 1] + 256 * bytes[at + 2] + 65536 * bytes[at + 3] + 16777216 * bytes[at + 4]
Int16At(bytes, at) ==
  IF Uint16At(bytes, at) >= 32768 THEN Uint16At(bytes, at) - 65536
  ELSE Uint16At(bytes, at)

\* the sample of channel k and frame n has been written (both from 0)
Written(k, n) ==
  \/ encPc = "returned"
  \/ encPc = "loop" /\ (n < frame \/ (n = frame /\ k < channel))

\* a sample that is a number (not NaN) clamped to [-1, 1], then times 32768
\* if negative and times 32767 if not, cut to an integer
ExpectedInt16(sample) ==
  IF sample.kind = "-Infinity" THEN -32768
  ELSE IF sample.kind = "Infinity" THEN 32767
  ELSE IF sample.num <= -Unit THEN -32768
  ELSE IF sample.num >= Unit THEN 32767
  ELSE IF sample.num < 0 THEN -(((-sample.num) * 32768) \div Unit)
  ELSE (sample.num * 32767) \div Unit

\* C18: every sample the encoder has written is a signed 16-bit integer in
\* [-32768, 32767]; for a sample value s that is a number, inside or outside
\* [-1, 1], it is s clamped to [-1, 1] and scaled by 32768 if negative and by
\* 32767 if not, with no wrap-around: -1 gives -32768, 0 gives 0 and +1
\* gives 32767.
C18_ClampedInt16 ==
  \A k \in 0..(encBuffer.numberOfChannels - 1), n \in 0..(encBuffer.length - 1) :
    Written(k, n) =>
      LET sample == encBuffer.channelData[k + 1][n + 1]
          stored == Int16At(view, 44 + 2 * (n * encBuffer.numberOfChannels + k))
      IN  /\ stored \in -32768..32767
          /\ sample.kind # "NaN" => stored = ExpectedInt16(sample)
          /\ sample = Sample(-Unit) => stored = -32768
          /\ sample = Sample(0) => stored = 0
          /\ sample = Sample(Unit) => stored = 32767

\* a buffer whose first samples are 1.5 and NaN has been encoded; 1.5 was
\* stored as 32767
C18_Witness ==
  /\ encPc = "returned"
  /\ encBuffer.numberOfChannels = 2
  /\ encBuffer.length = 2
  /\ encBuffer.channelData[1][1] = Sample(6)
  /\ encBuffer.channelData[2][1] = SampleNaN
  /\ Int16At(blob, 44) = 32767
  /\ Int16At(blob, 46) = 0

\* C19: the Blob returned for a buffer of c channels and L frames at rate sr
\* has 44 + 2*c*L bytes; its header holds format tag 1, c channels, sample
\* rate sr, byte rate 2*c*sr, block alignment 2*c, 16 bits per sample, data
\* length 2*c*L and RIFF size 36 + 2*c*L; the sample of frame i and channel
\* k is at byte offset 44 + 2*(i*c + k).
C19_WavLayout ==
  encPc = "returned" =>
    LET c  == encBuffer.numberOfChannels
        L  == encBuffer.length
        sr == encBuffer.sampleRate
    IN  /\ Len(blob) = 44 + 2 * c * L
        /\ Uint32At(blob, 4) = 36 + 2 * c * L
        /\ Uint16At(blob, 20) = 1
        /\ Uint16At(blob, 22) = c
        /\ Uint32At(blob, 24) = sr
        /\ Uint32At(blob, 28) = 2 * c * sr
        /\ Uint16At(blob, 32) = 2 * c
        /\ Uint16At(blob, 34) = 16
        /\ Uint32At(blob, 40) = 2 * c * L
        /\ \A k \in 0..(c - 1), n \in 0..(L - 1) :
             LET sample == encBuffer.channelData[k + 1][n + 1]
             IN  Int16At(blob, 44 + 2 * (n * c + k)) =
                   IF sample.kind = "NaN" THEN 0 ELSE ExpectedInt16(sample)

\* a stereo buffer of two frames with four different encodings was encoded
C19_Witness ==
  /\ encPc = "returned"
  /\ encBuffer.numberOfChannels = 2
  /\ encBuffer.length = 2
  /\ encBuffer.sampleRate = 48000
  /\ encBuffer.channelData[1][1] = Sample(-3)
  /\ Len(blob) = 52
  /\ << Int16At(blob, 44), Int16At(blob, 46), Int16At(blob, 48), Int16At(blob, 50) >>
       = << -24576, -8192, 0, 8191 >>

====
